---- MODULE Spec2Model ----
(***************************************************************************)
(* SnapshotCache of rust-control-plane (src/cache/snapshot.rs): the       *)
(* node -> (status, snapshot) maps behind one tokio mutex, the slab of     *)
(* pending watches of every node, and the four operations create_watch,    *)
(* cancel_watch, fetch and set_snapshot.  An operation holds the mutex     *)
(* from its first step to its return step; every send on a responder is a  *)
(* step of its own.                                                        *)
(***************************************************************************)
EXTENDS Naturals, Integers, Sequences, FiniteSets, TLC

VARIABLES
    ads,            \* SnapshotCache.ads
    status,         \* Inner.status    : node id -> NodeStatus
    snapshots,      \* Inner.snapshots : node id -> Snapshot
    clock,          \* the monotonic clock read by Instant::now()
    pc,             \* position of the task that holds the mutex, "idle" if none
    frame,          \* local variables of that task
    sent,           \* per responder, the number of tuples sent on it so far
    calls,          \* per create_watch call made so far, what it returned
    observed,       \* history: per pending watch, the version its call observed
    cancelRemoved,  \* history: responders whose watch a cancel_watch removed
    cancelCalled,   \* history: calls whose returned id was passed to cancel_watch
    asked,          \* history: node ids that create_watch has been called for
    closed          \* responders whose receiver has been dropped

vars == <<ads, status, snapshots, clock, pc, frame, sent, calls, observed,
          cancelRemoved, cancelCalled, asked, closed>>

----------------------------------------------------------------------------
(* Bounds of the exploration. *)

\* create_watch calls made in one behaviour (each brings its own responder)
MaxCalls == 2

\* length of the resource_names that build_response is applied to on its own
MaxNames == 3

----------------------------------------------------------------------------
(* Option<T>: None is the empty sequence, Some(x) the one-element sequence. *)

None == <<>>
Some(x) == <<x>>
IsSome(o) == Len(o) = 1
IsNone(o) == Len(o) = 0
Unwrap(o) == o[1]

Range(s) == {s[i] : i \in 1..Len(s)}

----------------------------------------------------------------------------
(* snapshot/type_url.rs *)

CLUSTER == "type.googleapis.com/envoy.config.cluster.v3.Cluster"
ENDPOINT == "type.googleapis.com/envoy.config.endpoint.v3.ClusterLoadAssignment"
ANY_TYPE == ""

----------------------------------------------------------------------------
(* The Snapshot value handed in by the loader: per known type a Resources  *)
(* { version, items: name -> Resource }.                                   *)

Resource(type_url, name) == [kind |-> type_url, name |-> name]

into_any(resource) == [type_url |-> resource.kind, value |-> <<resource.name>>]

Bundle(type_url, ver, names) ==
    [version |-> ver, items |-> [n \in names |-> Resource(type_url, n)]]

resources(snapshot, type_url) ==
    IF type_url \in DOMAIN snapshot.resources
    THEN Some(snapshot.resources[type_url])
    ELSE None

version(snapshot, type_url) ==
    IF type_url \in DOMAIN snapshot.resources
    THEN snapshot.resources[type_url].version
    ELSE ""

----------------------------------------------------------------------------
(* The inputs the operations are called with. *)

ReqNodes == {None, Some([id |-> "N"])}
Versions == {"v1", "v2"}
ReqVersions == {""} \cup Versions
ReqNames == {<<>>, <<"c1">>, <<"c2">>}

Snapshot(v, names) ==
    [resources |-> (CLUSTER :> Bundle(CLUSTER, v, names)) @@
                   (ENDPOINT :> Bundle(ENDPOINT, "e1", {"e1"}))]

Snapshots ==
    {Snapshot("v1", {"c2"}), Snapshot("v1", {"c1", "c2"}), Snapshot("v2", {"c1", "c2"})}

\* the loader pushes any of them to node "N", in any order, and one to node ""
Pushes == ({"N"} \X Snapshots) \cup {<<"", Snapshot("v1", {"c2"})>>}

NodeN == Some([id |-> "N"])

Request(n, v, t, rn) ==
    [node |-> n, version_info |-> v, type_url |-> t, resource_names |-> rn]

\* node "N" asks for clusters by version and names and for the unknown type;
\* a request without node envelope is the first wildcard request
Requests ==
    {Request(NodeN, v, CLUSTER, rn) : v \in Versions, rn \in ReqNames}
    \cup {Request(NodeN, v, ANY_TYPE, <<>>) : v \in {"", "v1"}}
    \cup {Request(n, "", CLUSTER, <<>>) : n \in ReqNodes}

\* the node id of a request: the empty string when it has no node
NodeOf(req) == IF req.node = None THEN "" ELSE Unwrap(req.node).id

\* KnownResourceNames: type url -> set of names the stream has already sent
KnownSets == {<<>>, (CLUSTER :> {"c1"})}

Responders == 1..MaxCalls

\* the orders in which a HashMap may iterate over the items of a bundle
Orders(items) ==
    {o \in [1..Cardinality(DOMAIN items) -> DOMAIN items] :
        \A i, j \in DOMAIN o : i # j => o[i] # o[j]}

AnyOrder(res) == IF IsSome(res) THEN Orders(Unwrap(res).items) ELSE {<<>>}

----------------------------------------------------------------------------
(* slab::Slab<Watch>: a vector of Occupied(watch) / Vacant(next free) slots *)
(* with the head of the free list in next.                                 *)

Occupied(val) == [occ |-> TRUE, val |-> Some(val), next |-> 0]
Vacant(next) == [occ |-> FALSE, val |-> None, next |-> next]

slab_new == [entries |-> <<>>, len |-> 0, next |-> 0]

\* keys are 0-based, entries is 1-based
slab_contains(slab, key) ==
    key < Len(slab.entries) /\ slab.entries[key + 1].occ

slab_get(slab, key) == Unwrap(slab.entries[key + 1].val)

\* the keys of the occupied slots, in iteration order
RECURSIVE slab_keys_from(_, _)
slab_keys_from(slab, key) ==
    IF key >= Len(slab.entries) THEN <<>>
    ELSE IF slab.entries[key + 1].occ
         THEN <<key>> \o slab_keys_from(slab, key + 1)
         ELSE slab_keys_from(slab, key + 1)

slab_iter(slab) == slab_keys_from(slab, 0)

\* insert returns the key it used and the new slab
slab_insert(slab, val) ==
    LET key == slab.next IN
    IF key = Len(slab.entries)
    THEN [key |-> key,
          slab |-> [entries |-> Append(slab.entries, Occupied(val)),
                    len |-> slab.len + 1,
                    next |-> key + 1]]
    ELSE [key |-> key,
          slab |-> [entries |-> [slab.entries EXCEPT ![key + 1] = Occupied(val)],
                    len |-> slab.len + 1,
                    next |-> slab.entries[key + 1].next]]

\* variant: try_remove that finds nothing to remove
slab_try_remove_miss(slab, key) == slab

slab_try_remove(slab, key) ==
    IF slab_contains(slab, key)
    THEN [entries |-> [slab.entries EXCEPT ![key + 1] = Vacant(slab.next)],
          len |-> slab.len - 1,
          next |-> key]
    ELSE slab

\* variant: the dispatched watch is read but left in its slot
slab_remove_kept(slab, key) == slab

\* remove is try_remove(key).expect("invalid key"); set_snapshot calls it under
\* the lock with keys it has just read from the slab
slab_remove(slab, key) == slab_try_remove(slab, key)

----------------------------------------------------------------------------
(* cache/snapshot.rs: the pure helpers *)

hash_id(node) == IF IsSome(node) THEN Unwrap(node).id ELSE ""

NodeStatus_new(now) == [last_request_time |-> now, watches |-> slab_new]

\* variant: insert(node_id, NodeStatus::new()) in place of the entry API
update_node_status_reset(st, node_id, now) ==
    [n \in DOMAIN st \cup {node_id} |->
        IF n = node_id THEN NodeStatus_new(now) ELSE st[n]]

\* variant: a request refreshes the entry of every node
update_node_status_all(st, node_id, now) ==
    [n \in DOMAIN st \cup {node_id} |->
        IF n \in DOMAIN st
        THEN [st[n] EXCEPT !.last_request_time = now]
        ELSE NodeStatus_new(now)]

\* variant: the time of an existing entry is left as it was
update_node_status_once(st, node_id, now) ==
    IF node_id \in DOMAIN st
    THEN st
    ELSE st @@ (node_id :> NodeStatus_new(now))

update_node_status(st, node_id, now) ==
    IF node_id \in DOMAIN st
    THEN [st EXCEPT ![node_id].last_request_time = now]
    ELSE st @@ (node_id :> NodeStatus_new(now))

\* variant: the key is reserved but the watch is not stored
set_watch_lost(st, node_id, req, tx) ==
    [id |-> [node_id |-> node_id, index |-> st[node_id].watches.next],
     status |-> st]

\* set_watch returns the WatchId and the new status map
set_watch(st, node_id, req, tx) ==
    LET ins == slab_insert(st[node_id].watches, [req |-> req, tx |-> tx]) IN
    [id |-> [node_id |-> node_id, index |-> ins.key],
     status |-> [st EXCEPT ![node_id].watches = ins.slab]]

known_get(known, type_url) ==
    IF type_url \in DOMAIN known THEN Some(known[type_url]) ELSE None

\* variant: a name the stream does not know yet is never noticed
is_requesting_new_resources_blind(req, res, type_known) ==
    /\ IsSome(res)
    /\ IsSome(type_known)
    /\ \E i \in 1..Len(req.resource_names) :
          /\ req.resource_names[i] \in Unwrap(type_known)
          /\ req.resource_names[i] \notin DOMAIN Unwrap(res).items

is_requesting_new_resources(req, res, type_known) ==
    /\ IsSome(res)
    /\ IsSome(type_known)
    /\ \E i \in 1..Len(req.resource_names) :
          /\ req.resource_names[i] \notin Unwrap(type_known)
          /\ req.resource_names[i] \in DOMAIN Unwrap(res).items

\* variant: a request without names is checked like any other
check_ads_consistency_named(req, res) ==
    ~ ( /\ IsSome(res)
        /\ \E name \in DOMAIN Unwrap(res).items : name \notin Range(req.resource_names) )

check_ads_consistency(req, res) ==
    ~ ( /\ req.resource_names # <<>>
        /\ IsSome(res)
        /\ \E name \in DOMAIN Unwrap(res).items : name \notin Range(req.resource_names) )

\* variant: a name repeated in the request is served once
RECURSIVE filter_names_once(_, _)
filter_names_once(names, items) ==
    IF names = <<>> THEN <<>>
    ELSE (IF Head(names) \in DOMAIN items /\ Head(names) \notin Range(Tail(names))
          THEN <<into_any(items[Head(names)])>>
          ELSE <<>>) \o filter_names_once(Tail(names), items)

RECURSIVE filter_names(_, _)
filter_names(names, items) ==
    IF names = <<>> THEN <<>>
    ELSE (IF Head(names) \in DOMAIN items
          THEN <<into_any(items[Head(names)])>>
          ELSE <<>>) \o filter_names(Tail(names), items)

\* variant: the response echoes the version of the request
build_response_echo(req, res, ver, order) ==
    [type_url |-> req.type_url,
     nonce |-> "",
     version_info |-> req.version_info,
     resources |-> IF IsSome(res)
                   THEN IF req.resource_names = <<>>
                        THEN [i \in 1..Len(order) |-> into_any(Unwrap(res).items[order[i]])]
                        ELSE filter_names(req.resource_names, Unwrap(res).items)
                   ELSE <<>>,
     control_plane |-> None,
     canary |-> FALSE]

\* order: the order in which the HashMap of the bundle yields its values
build_response(req, res, ver, order) ==
    LET filtered_resources ==
            IF IsSome(res)
            THEN IF req.resource_names = <<>>
                 THEN [i \in 1..Len(order) |-> into_any(Unwrap(res).items[order[i]])]
                 ELSE filter_names(req.resource_names, Unwrap(res).items)
            ELSE <<>>
    IN [type_url |-> req.type_url,
        nonce |-> "",
        version_info |-> ver,
        resources |-> filtered_resources,
        control_plane |-> None,
        canary |-> FALSE]

\* what tx.send((req.clone(), rep)) puts on the channel of tx
respond(req, tx, res, ver, order) ==
    [tx |-> tx, req |-> req, rep |-> build_response(req, res, ver, order)]

\* variant: a new version alone never makes create_watch respond
create_watch_branch_quiet(isAds, snaps, node_id, req, known) ==
    IF node_id \in DOMAIN snaps
    THEN LET res == resources(snaps[node_id], req.type_url)
             type_known == known_get(known, req.type_url)
         IN IF is_requesting_new_resources(req, res, type_known)
            THEN IF isAds /\ check_ads_consistency(req, res)
                 THEN "set_watch"
                 ELSE "respond"
            ELSE "set_watch"
    ELSE "set_watch"

\* variant: the version of the request is not compared
create_watch_branch_eager(isAds, snaps, node_id, req, known) ==
    IF node_id \in DOMAIN snaps
    THEN LET res == resources(snaps[node_id], req.type_url) IN
         IF isAds /\ check_ads_consistency(req, res)
         THEN "set_watch"
         ELSE "respond"
    ELSE "set_watch"

\* create_watch, lines 102-138: "respond" or "set_watch"
create_watch_branch(isAds, snaps, node_id, req, known) ==
    IF node_id \in DOMAIN snaps
    THEN LET res == resources(snaps[node_id], req.type_url)
             ver == version(snaps[node_id], req.type_url)
             type_known == known_get(known, req.type_url)
         IN IF is_requesting_new_resources(req, res, type_known)
            THEN IF isAds /\ check_ads_consistency(req, res)
                 THEN "set_watch"
                 ELSE "respond"
            ELSE IF req.version_info = ver
                 THEN "set_watch"
                 ELSE IF isAds /\ check_ads_consistency(req, res)
                      THEN "set_watch"
                      ELSE "respond"
    ELSE "set_watch"

\* variant: a type without version in the snapshot is taken as unchanged
RECURSIVE stale_keys_known(_, _, _)
stale_keys_known(slab, keys, snapshot) ==
    IF keys = <<>> THEN <<>>
    ELSE LET watch == slab_get(slab, Head(keys))
             ver == version(snapshot, watch.req.type_url)
         IN (IF ver # "" /\ ver # watch.req.version_info
             THEN <<Head(keys)>>
             ELSE <<>>) \o stale_keys_known(slab, Tail(keys), snapshot)

\* set_snapshot, lines 59-65: the keys of the watches to dispatch
RECURSIVE stale_keys(_, _, _)
stale_keys(slab, keys, snapshot) ==
    IF keys = <<>> THEN <<>>
    ELSE LET watch == slab_get(slab, Head(keys)) IN
         (IF version(snapshot, watch.req.type_url) # watch.req.version_info
          THEN <<Head(keys)>>
          ELSE <<>>) \o stale_keys(slab, Tail(keys), snapshot)

\* variant: every watch of the node is dispatched
to_delete_all(slab, snapshot) == slab_iter(slab)

to_delete(slab, snapshot) == stale_keys(slab, slab_iter(slab), snapshot)

----------------------------------------------------------------------------
(* Construction: SnapshotCache::new(ads) *)

Init ==
    /\ ads \in BOOLEAN
    /\ status = <<>>
    /\ snapshots = <<>>
    /\ clock = 0
    /\ pc = "idle"
    /\ frame = <<>>
    /\ sent = [tx \in Responders |-> 0]
    /\ calls = <<>>
    /\ observed = [tx \in Responders |-> None]
    /\ cancelRemoved = {}
    /\ cancelCalled = {}
    /\ asked = {}
    /\ closed = {}

\* the channel of tx after one more tuple went out on it
Delivered(counts, tx) == [counts EXCEPT ![tx] = @ + 1]

----------------------------------------------------------------------------
(* create_watch *)

\* lines 99-112, 117-128, 134-138: lock, touch the node status, then either
\* install the watch or go on to respond
CreateWatchCall(req, known) ==
    /\ pc = "idle"
    /\ Len(calls) < MaxCalls
    /\ LET tx == Len(calls) + 1
           node_id == hash_id(req.node)
           now == clock + 1
           touched == update_node_status(status, node_id, now)
           branch == create_watch_branch(ads, snapshots, node_id, req, known)
           sw == set_watch(touched, node_id, req, tx)
           seen == IF node_id \in DOMAIN snapshots
                   THEN Some(version(snapshots[node_id], req.type_url))
                   ELSE None
       IN /\ clock' = now
          /\ status' = IF branch = "set_watch" THEN sw.status ELSE touched
          /\ pc' = IF branch = "set_watch" THEN "cw_return" ELSE "cw_respond"
          /\ frame' = [req |-> req, known |-> known, tx |-> tx, node_id |-> node_id,
                       seen |-> seen, out |-> <<>>,
                       ret |-> IF branch = "set_watch" THEN Some(sw.id) ELSE None,
                       pre_status |-> status, pre_sent |-> sent]
          /\ observed' = IF branch = "set_watch"
                         THEN [observed EXCEPT ![tx] = seen]
                         ELSE observed
          /\ calls' = Append(calls, [returned |-> FALSE, ret |-> None])
          /\ asked' = asked \cup {NodeOf(req)}
    /\ UNCHANGED <<ads, snapshots, sent, cancelRemoved, cancelCalled, closed>>

\* lines 114 and 130: respond(req, tx, resources, version).await
CreateWatchRespond ==
    /\ pc = "cw_respond"
    /\ frame.tx \notin closed
    /\ LET snapshot == snapshots[frame.node_id]
           res == resources(snapshot, frame.req.type_url)
           ver == version(snapshot, frame.req.type_url)
       IN \E order \in AnyOrder(res) :
             frame' = [frame EXCEPT !.out =
                          Append(@, respond(frame.req, frame.tx, res, ver, order))]
    /\ sent' = Delivered(sent, frame.tx)
    /\ pc' = "cw_return"
    /\ UNCHANGED <<ads, status, snapshots, clock, calls, observed,
                   cancelRemoved, cancelCalled, asked, closed>>

\* the return of create_watch: the mutex guard is dropped
CreateWatchReturn ==
    /\ pc = "cw_return"
    /\ calls' = [calls EXCEPT ![frame.tx] = [returned |-> TRUE, ret |-> frame.ret]]
    /\ pc' = "idle"
    /\ frame' = <<>>
    /\ UNCHANGED <<ads, status, snapshots, clock, sent, observed,
                   cancelRemoved, cancelCalled, asked, closed>>

----------------------------------------------------------------------------
(* set_snapshot *)

\* variant: the watches are collected but the snapshot is not installed
SetSnapshotCall_uninstalled(node, snapshot) ==
    /\ pc = "idle"
    /\ LET marked == IF node \in DOMAIN status
                     THEN to_delete(status[node].watches, snapshot)
                     ELSE <<>>
       IN /\ frame' = [node |-> node, snapshot |-> snapshot, to_delete |-> marked,
                       out |-> <<>>,
                       pre_status |-> status, pre_sent |-> sent,
                       pre_snapshots |-> snapshots, pre_observed |-> observed]
          /\ pc' = IF marked = <<>> THEN "ss_return" ELSE "ss_dispatch"
    /\ UNCHANGED <<ads, status, snapshots, clock, sent, calls, observed,
                   cancelRemoved, cancelCalled, asked, closed>>

\* lines 56-65: lock, install the snapshot, collect the watches to dispatch
SetSnapshotCall(node, snapshot) ==
    /\ pc = "idle"
    /\ LET marked == IF node \in DOMAIN status
                     THEN to_delete(status[node].watches, snapshot)
                     ELSE <<>>
       IN /\ snapshots' = [n \in DOMAIN snapshots \cup {node} |->
                              IF n = node THEN snapshot ELSE snapshots[n]]
          /\ frame' = [node |-> node, snapshot |-> snapshot, to_delete |-> marked,
                       out |-> <<>>,
                       pre_status |-> status, pre_sent |-> sent,
                       pre_snapshots |-> snapshots, pre_observed |-> observed]
          /\ pc' = IF marked = <<>> THEN "ss_return" ELSE "ss_dispatch"
    /\ UNCHANGED <<ads, status, clock, sent, calls, observed, cancelRemoved, cancelCalled, asked, closed>>

\* lines 67-76, one turn of the loop: remove the watch, respond on its tx
SetSnapshotDispatch ==
    /\ pc = "ss_dispatch"
    /\ slab_get(status[frame.node].watches, Head(frame.to_delete)).tx \notin closed
    /\ LET watch_id == Head(frame.to_delete)
           watch == slab_get(status[frame.node].watches, watch_id)
           res == resources(frame.snapshot, watch.req.type_url)
           ver == version(frame.snapshot, watch.req.type_url)
       IN /\ status' = [status EXCEPT ![frame.node].watches = slab_remove(@, watch_id)]
          /\ \E order \in AnyOrder(res) :
                frame' = [frame EXCEPT
                             !.to_delete = Tail(@),
                             !.out = Append(@, respond(watch.req, watch.tx, res, ver, order))]
          /\ sent' = Delivered(sent, watch.tx)
          /\ observed' = [observed EXCEPT ![watch.tx] = None]
    /\ pc' = IF Tail(frame.to_delete) = <<>> THEN "ss_return" ELSE "ss_dispatch"
    /\ UNCHANGED <<ads, snapshots, clock, calls, cancelRemoved, cancelCalled, asked, closed>>

\* the return of set_snapshot: the mutex guard is dropped
SetSnapshotReturn ==
    /\ pc = "ss_return"
    /\ pc' = "idle"
    /\ frame' = <<>>
    /\ UNCHANGED <<ads, status, snapshots, clock, sent, calls, observed,
                   cancelRemoved, cancelCalled, asked, closed>>

----------------------------------------------------------------------------
(* cancel_watch *)

\* the ids a caller can hold: who > 0 passes the id that create_watch call
\* number who returned, who = 0 passes an id no call has returned
StrayIds == {[node_id |-> "M", index |-> 0], [node_id |-> "N", index |-> 1]}

IssuedIds == {Unwrap(calls[c].ret) : c \in {d \in DOMAIN calls : IsSome(calls[d].ret)}}

HeldIds(who) ==
    IF who = 0 THEN StrayIds \ IssuedIds
    ELSE IF calls[who].returned /\ IsSome(calls[who].ret)
         THEN {Unwrap(calls[who].ret)}
         ELSE {}

\* lines 143-146: lock, try_remove the slot
CancelWatchCall(who, watch_id) ==
    /\ pc = "idle"
    /\ watch_id \in HeldIds(who)
    /\ LET known_node == watch_id.node_id \in DOMAIN status
           hit == known_node /\ slab_contains(status[watch_id.node_id].watches, watch_id.index)
           gone == IF hit
                   THEN {slab_get(status[watch_id.node_id].watches, watch_id.index).tx}
                   ELSE {}
       IN /\ status' = IF known_node
                       THEN [status EXCEPT ![watch_id.node_id].watches =
                                 slab_try_remove(@, watch_id.index)]
                       ELSE status
          /\ cancelRemoved' = cancelRemoved \cup gone
          /\ observed' = [tx \in Responders |-> IF tx \in gone THEN None ELSE observed[tx]]
    /\ cancelCalled' = cancelCalled \cup (IF who = 0 THEN {} ELSE {who})
    /\ frame' = [watch_id |-> watch_id, who |-> who, out |-> <<>>,
                 pre_status |-> status, pre_sent |-> sent]
    /\ pc' = "cancel_return"
    /\ UNCHANGED <<ads, snapshots, clock, sent, calls, asked, closed>>

\* the return of cancel_watch: the mutex guard is dropped
CancelWatchReturn ==
    /\ pc = "cancel_return"
    /\ pc' = "idle"
    /\ frame' = <<>>
    /\ UNCHANGED <<ads, status, snapshots, clock, sent, calls, observed,
                   cancelRemoved, cancelCalled, asked, closed>>

----------------------------------------------------------------------------
(* fetch *)

Ok(rep) == [ok |-> TRUE, err |-> "", rep |-> Some(rep)]
Err(e) == [ok |-> FALSE, err |-> e, rep |-> None]

\* either node polls for one cluster at version "v1"; node "N" also polls as a
\* client that has nothing yet
FetchRequests ==
    {Request(n, "v1", CLUSTER, <<"c2">>) : n \in ReqNodes}
    \cup {Request(NodeN, "", CLUSTER, <<>>)}

FetchTypes == {CLUSTER, ENDPOINT}

\* variant: the version is that of the type_url argument
fetch_arg_version(snaps, req, type_url, order) ==
    LET node_id == hash_id(req.node) IN
    IF node_id \notin DOMAIN snaps THEN Err("NotFound")
    ELSE LET ver == version(snaps[node_id], type_url) IN
         IF req.version_info = ver THEN Err("VersionUpToDate")
         ELSE Ok(build_response(req, resources(snaps[node_id], type_url), ver, order))

\* lines 154-162
fetch(snaps, req, type_url, order) ==
    LET node_id == hash_id(req.node) IN
    IF node_id \notin DOMAIN snaps THEN Err("NotFound")
    ELSE LET ver == version(snaps[node_id], req.type_url) IN
         IF req.version_info = ver THEN Err("VersionUpToDate")
         ELSE Ok(build_response(req, resources(snaps[node_id], type_url), ver, order))

\* variant: fetch counts as a request of the node, as create_watch does
FetchCall_touch(req, type_url) ==
    /\ pc = "idle"
    /\ LET node_id == hash_id(req.node)
           res == IF node_id \in DOMAIN snapshots
                  THEN resources(snapshots[node_id], type_url)
                  ELSE None
       IN \E order \in AnyOrder(res) :
             frame' = [req |-> req, type_url |-> type_url, out |-> <<>>,
                       ret |-> fetch(snapshots, req, type_url, order),
                       pre_status |-> status, pre_sent |-> sent,
                       pre_snapshots |-> snapshots]
    /\ status' = update_node_status(status, hash_id(req.node), clock)
    /\ pc' = "fetch_return"
    /\ UNCHANGED <<ads, snapshots, clock, sent, calls, observed,
                   cancelRemoved, cancelCalled, asked, closed>>

\* lines 153-162: lock, look the snapshot up, build the result
FetchCall(req, type_url) ==
    /\ pc = "idle"
    /\ LET node_id == hash_id(req.node)
           res == IF node_id \in DOMAIN snapshots
                  THEN resources(snapshots[node_id], type_url)
                  ELSE None
       IN \E order \in AnyOrder(res) :
             frame' = [req |-> req, type_url |-> type_url, out |-> <<>>,
                       ret |-> fetch(snapshots, req, type_url, order),
                       pre_status |-> status, pre_sent |-> sent,
                       pre_snapshots |-> snapshots]
    /\ pc' = "fetch_return"
    /\ UNCHANGED <<ads, status, snapshots, clock, sent, calls, observed,
                   cancelRemoved, cancelCalled, asked, closed>>

\* the return of fetch: the mutex guard is dropped
FetchReturn ==
    /\ pc = "fetch_return"
    /\ pc' = "idle"
    /\ frame' = <<>>
    /\ UNCHANGED <<ads, status, snapshots, clock, sent, calls, observed,
                   cancelRemoved, cancelCalled, asked, closed>>

----------------------------------------------------------------------------
(* node_status *)

\* lines 82-86: node id -> last_request_time
node_status(st) == [n \in DOMAIN st |-> st[n].last_request_time]

\* lines 81-86: lock, collect
NodeStatusCall ==
    /\ pc = "idle"
    /\ frame' = [out |-> <<>>, ret |-> node_status(status),
                 pre_status |-> status, pre_sent |-> sent,
                 pre_snapshots |-> snapshots]
    /\ pc' = "ns_return"
    /\ UNCHANGED <<ads, status, snapshots, clock, sent, calls, observed,
                   cancelRemoved, cancelCalled, asked, closed>>

\* the return of node_status: the mutex guard is dropped
NodeStatusReturn ==
    /\ pc = "ns_return"
    /\ pc' = "idle"
    /\ frame' = <<>>
    /\ UNCHANGED <<ads, status, snapshots, clock, sent, calls, observed,
                   cancelRemoved, cancelCalled, asked, closed>>

----------------------------------------------------------------------------

Next ==
    \/ \E req \in Requests, known \in KnownSets : CreateWatchCall(req, known)
    \/ CreateWatchRespond
    \/ CreateWatchReturn
    \/ \E push \in Pushes : SetSnapshotCall(push[1], push[2])
    \/ SetSnapshotDispatch
    \/ SetSnapshotReturn
    \/ \E who \in 0..Len(calls), watch_id \in StrayIds \cup IssuedIds :
          CancelWatchCall(who, watch_id)
    \/ CancelWatchReturn
    \/ \E req \in FetchRequests, type_url \in FetchTypes : FetchCall(req, type_url)
    \/ FetchReturn
    \/ NodeStatusCall
    \/ NodeStatusReturn

Spec == Init /\ [][Next]_vars

----------------------------------------------------------------------------
(* Receivers that go away.  The stream of a watch owns the receiver of its  *)
(* responder; dropping it makes every later tx.send(..) return Err, which   *)
(* respond unwraps (line 261).  A receiver is dropped between operations:   *)
(* a drop while an operation runs acts on its later sends as a drop before  *)
(* it does.                                                                 *)

DropReceiver(tx) ==
    /\ pc = "idle"
    /\ tx \notin closed
    /\ closed' = closed \cup {tx}
    /\ UNCHANGED <<ads, status, snapshots, clock, pc, frame, sent, calls, observed,
                   cancelRemoved, cancelCalled, asked>>

\* lines 114 and 130 with a closed channel: the unwrap in respond panics
CreateWatchPanic ==
    /\ pc = "cw_respond"
    /\ frame.tx \in closed
    /\ pc' = "cw_panicked"
    /\ UNCHANGED <<ads, status, snapshots, clock, frame, sent, calls, observed,
                   cancelRemoved, cancelCalled, asked, closed>>

\* lines 67-76 with a closed channel: the watch is removed (line 68), then the
\* unwrap in respond panics and the rest of to_delete is not visited
SetSnapshotPanic ==
    /\ pc = "ss_dispatch"
    /\ LET watch_id == Head(frame.to_delete)
           watch == slab_get(status[frame.node].watches, watch_id)
       IN /\ watch.tx \in closed
          /\ status' = [status EXCEPT ![frame.node].watches = slab_remove(@, watch_id)]
          /\ frame' = [frame EXCEPT !.to_delete = Tail(@)]
          /\ observed' = [observed EXCEPT ![watch.tx] = None]
    /\ pc' = "ss_panicked"
    /\ UNCHANGED <<ads, snapshots, clock, sent, calls, cancelRemoved, cancelCalled,
                   asked, closed>>

\* the panic unwinds the task: the guard of the tokio mutex is dropped, the
\* mutex is not poisoned
Unwind ==
    /\ pc \in {"cw_panicked", "ss_panicked"}
    /\ pc' = "idle"
    /\ frame' = <<>>
    /\ UNCHANGED <<ads, status, snapshots, clock, sent, calls, observed,
                   cancelRemoved, cancelCalled, asked, closed>>

NextDrop ==
    \/ Next
    \/ \E tx \in Responders : DropReceiver(tx)
    \/ CreateWatchPanic
    \/ SetSnapshotPanic
    \/ Unwind

DropSpec == Init /\ [][NextDrop]_vars

----------------------------------------------------------------------------
(* build_response on its own: the arguments are drawn, then it is applied. *)

BuildNames == UNION {[1..k -> {"c1", "c2", "c3"}] : k \in 0..MaxNames}

BuildBundles ==
    {None} \cup {Some(Bundle(CLUSTER, "b1", names)) : names \in {{}, {"c1"}, {"c1", "c2"}}}

InitBuild ==
    /\ ads = FALSE
    /\ status = <<>>
    /\ snapshots = <<>>
    /\ clock = 0
    /\ sent = [tx \in Responders |-> 0]
    /\ calls = <<>>
    /\ observed = [tx \in Responders |-> None]
    /\ cancelRemoved = {}
    /\ cancelCalled = {}
    /\ asked = {}
    /\ closed = {}
    /\ pc = "build_in"
    /\ \E rn \in BuildNames, t \in {CLUSTER, ANY_TYPE}, res \in BuildBundles, v \in Versions :
          \E order \in AnyOrder(res) :
             frame = [req |-> Request(NodeN, "v1", t, rn), res |-> res, ver |-> v,
                      order |-> order, ret |-> None]

\* lines 223-252
BuildResponseApply ==
    /\ pc = "build_in"
    /\ frame' = [frame EXCEPT !.ret =
                    Some(build_response(frame.req, frame.res, frame.ver, frame.order))]
    /\ pc' = "build_out"
    /\ UNCHANGED <<ads, status, snapshots, clock, sent, calls, observed,
                   cancelRemoved, cancelCalled, asked, closed>>

NextBuild == BuildResponseApply

BuildSpec == InitBuild /\ [][NextBuild]_vars

\* a task that holds the mutex runs on to its return; nothing makes a caller call
Running ==
    \/ CreateWatchRespond
    \/ CreateWatchReturn
    \/ SetSnapshotDispatch
    \/ SetSnapshotReturn
    \/ CancelWatchReturn
    \/ FetchReturn
    \/ NodeStatusReturn

FairSpec == Spec /\ WF_vars(Running)

----------------------------------------------------------------------------
(* What the claims speak of. *)

\* the occupied slots of a node's watch table, as <<key, watch>> pairs
Entries(st, node_id) ==
    IF node_id \in DOMAIN st
    THEN {<<k, slab_get(st[node_id].watches, k)>> : k \in Range(slab_iter(st[node_id].watches))}
    ELSE {}

\* the responders that have a watch in some table
LiveTx(st) == {e[2].tx : e \in UNION {Entries(st, n) : n \in DOMAIN st}}

\* the tuples the running operation has sent on tx
OutOn(tx) == {i \in DOMAIN frame.out : frame.out[i].tx = tx}

\* the create_watch calls that have returned Some(id)
Installed == {c \in DOMAIN calls : calls[c].returned /\ IsSome(calls[c].ret)}

\* the watch of call c sits in the table under the id the call returned
Pending(c) ==
    LET id == Unwrap(calls[c].ret) IN
    /\ id.node_id \in DOMAIN status
    /\ slab_contains(status[id.node_id].watches, id.index)
    /\ slab_get(status[id.node_id].watches, id.index).tx = c

----------------------------------------------------------------------------
\* C1: when create_watch returns, it returns Some(id) iff the watch (req, tx)
\* was inserted into the node's table under id and nothing was sent on tx, and
\* None iff exactly one (request, response) tuple was sent on tx and the table
\* is as before; in ADS and in non-ADS mode.
C1_ReturnTellsWhatHappened ==
    pc = "cw_return" =>
        LET pre == Entries(frame.pre_status, frame.node_id)
            post == Entries(status, frame.node_id)
            mine == [req |-> frame.req, tx |-> frame.tx]
            inserted == \E k \in 0..MaxCalls :
                            /\ <<k, mine>> \notin pre
                            /\ post = pre \cup {<<k, mine>>}
                            /\ frame.ret = Some([node_id |-> frame.node_id, index |-> k])
            silent == sent = frame.pre_sent /\ frame.out = <<>>
            answered == /\ sent = Delivered(frame.pre_sent, frame.tx)
                        /\ Len(frame.out) = 1
                        /\ frame.out[1].tx = frame.tx
                        /\ frame.out[1].req = frame.req
        IN /\ IsSome(frame.ret) <=> (inserted /\ silent)
           /\ IsNone(frame.ret) <=> (answered /\ post = pre)

\* a call answered at once in ADS mode while another watch of the node waits
C1_Witness ==
    /\ pc = "cw_return"
    /\ ads
    /\ IsNone(frame.ret)
    /\ Entries(status, frame.node_id) # {}

\* C2: a responder receives at most one response in all, and once it has
\* received it no table holds a watch with that responder.
C2_AtMostOneResponse ==
    \A tx \in Responders :
        /\ sent[tx] <= 1
        /\ sent[tx] = 1 => tx \notin LiveTx(status)

\* a set_snapshot that changes the version has completed for the node of a
\* watch that an earlier set_snapshot had dispatched
C2_Witness ==
    /\ pc = "ss_return"
    /\ frame.node \in DOMAIN frame.pre_snapshots
    /\ version(frame.pre_snapshots[frame.node], CLUSTER) # version(frame.snapshot, CLUSTER)
    /\ \E c \in Installed :
          /\ Unwrap(calls[c].ret).node_id = frame.node
          /\ frame.pre_sent[c] = 1

\* the watches of the pushed node whose call had observed a snapshot
ObservedBefore == {e \in Entries(frame.pre_status, frame.node) :
                      IsSome(frame.pre_observed[e[2].tx])}

\* the running set_snapshot has removed the watch e and responded on its tx
Fired(e) ==
    /\ e \notin Entries(status, frame.node)
    /\ \E i \in OutOn(e[2].tx) :
          frame.out[i].rep.version_info = version(frame.snapshot, e[2].req.type_url)

\* a create_watch that observed version V and answered at once answered with V
AnswersWhatItSaw ==
    (pc = "cw_return" /\ IsSome(frame.seen) /\ IsNone(frame.ret)) =>
        \A i \in DOMAIN frame.out : frame.out[i].rep.version_info = Unwrap(frame.seen)

\* C3 as claimed: a call that observed version V answers with V or leaves a
\* watch that every set_snapshot with a version W # V fires.
C3_AsClaimed ==
    /\ AnswersWhatItSaw
    /\ pc = "ss_return" =>
          \A e \in ObservedBefore :
              version(frame.snapshot, e[2].req.type_url) # Unwrap(frame.pre_observed[e[2].tx])
                  => Fired(e)

\* C3 amended: a call that observed version V answers with V or leaves a watch
\* that every set_snapshot with a version W # req.version_info fires; without
\* ADS that watch has req.version_info = V.
C3_FiresOnOtherThanRequested ==
    /\ AnswersWhatItSaw
    /\ (pc = "cw_return" /\ IsSome(frame.seen) /\ IsSome(frame.ret) /\ ~ads) =>
          frame.req.version_info = Unwrap(frame.seen)
    /\ pc = "ss_return" =>
          \A e \in ObservedBefore :
              version(frame.snapshot, e[2].req.type_url) # e[2].req.version_info
                  => Fired(e)

\* under ADS a watch whose call observed a version other than the one it sent
\* has been fired by a push
C3_Witness ==
    /\ pc = "ss_return"
    /\ ads
    /\ \E e \in ObservedBefore :
          /\ Unwrap(frame.pre_observed[e[2].tx]) # e[2].req.version_info
          /\ Fired(e)

\* C4 as claimed: when set_snapshot(n, s) has completed no watch left in the
\* table of n has req.version_info = s.version(req.type_url).
C4_AsClaimed ==
    pc = "ss_return" =>
        \A e \in Entries(status, frame.node) :
            e[2].req.version_info # version(frame.snapshot, e[2].req.type_url)

\* C4 amended: when set_snapshot(n, s) has completed every watch left in the
\* table of n has req.version_info = s.version(req.type_url).
C4_LeftWatchesAreCurrent ==
    pc = "ss_return" =>
        \A e \in Entries(status, frame.node) :
            e[2].req.version_info = version(frame.snapshot, e[2].req.type_url)

\* a push that dispatched one watch of the node and left another one pending
C4_Witness ==
    /\ pc = "ss_return"
    /\ frame.out # <<>>
    /\ Entries(status, frame.node) # {}

\* C5: no response is ever sent on the responder of a watch that cancel_watch
\* removed while it was pending.
C5_NothingAfterCancel ==
    \A tx \in cancelRemoved : sent[tx] = 0

\* the first snapshot of a node has been pushed after a watch of that node,
\* installed while there was none, was cancelled by its own id
C5_Witness ==
    /\ pc = "ss_return"
    /\ frame.node \notin DOMAIN frame.pre_snapshots
    /\ \E c \in Installed \cap cancelRemoved \cap cancelCalled :
          Unwrap(calls[c].ret).node_id = frame.node

\* C6 as claimed: a cancel_watch(id) whose id was issued for a watch that is
\* no longer in the table, or was never issued, or names a node without
\* status, removes no watch, sends nothing and creates no status entry.
C6_AsClaimed ==
    pc = "cancel_return" =>
        LET id == frame.watch_id
            live == /\ frame.who # 0
                    /\ id.node_id \in DOMAIN frame.pre_status
                    /\ slab_contains(frame.pre_status[id.node_id].watches, id.index)
                    /\ slab_get(frame.pre_status[id.node_id].watches, id.index).tx = frame.who
        IN ~live => (status = frame.pre_status /\ sent = frame.pre_sent)

\* C7 as claimed: in ADS mode, with a snapshot for the node, a request that is
\* stale or widens the resource set, names resources and leaves out a name of
\* the bundle is not answered: a watch is installed and Some(id) returned.
C7_AsClaimed ==
    (pc = "cw_return" /\ ads /\ IsSome(frame.seen)) =>
        LET res == resources(snapshots[frame.node_id], frame.req.type_url)
            would == \/ frame.req.version_info # Unwrap(frame.seen)
                     \/ is_requesting_new_resources(
                            frame.req, res, known_get(frame.known, frame.req.type_url))
            outside == /\ frame.req.resource_names # <<>>
                       /\ IsSome(res)
                       /\ \E name \in DOMAIN Unwrap(res).items :
                              name \notin Range(frame.req.resource_names)
        IN (would /\ outside) =>
               (IsSome(frame.ret) /\ frame.out = <<>> /\ sent = frame.pre_sent)

\* the watches of the pushed node that the snapshot contradicts
StaleBefore ==
    {e \in Entries(frame.pre_status, frame.node) :
        e[2].req.version_info # version(frame.snapshot, e[2].req.type_url)}

\* C8: when set_snapshot(n, s) has completed, snapshots[n] is s; every watch of
\* n whose req.version_info differed from s.version(req.type_url) is out of the
\* table and got one response with that version and its own type_url (without
\* resources for a type s does not know); every other watch of n is in the
\* table under its index and got nothing; no other responder got anything.
C8_PushDispatchesTheStale ==
    pc = "ss_return" =>
        LET before == Entries(frame.pre_status, frame.node) IN
        /\ frame.node \in DOMAIN snapshots
        /\ snapshots[frame.node] = frame.snapshot
        /\ \A n \in DOMAIN frame.pre_snapshots :
              n \in DOMAIN snapshots /\ (n # frame.node => snapshots[n] = frame.pre_snapshots[n])
        /\ DOMAIN status = DOMAIN frame.pre_status
        /\ Entries(status, frame.node) = before \ StaleBefore
        /\ Len(frame.out) = Cardinality(StaleBefore)
        /\ \A e \in StaleBefore :
              /\ sent[e[2].tx] = frame.pre_sent[e[2].tx] + 1
              /\ Cardinality(OutOn(e[2].tx)) = 1
              /\ \A i \in OutOn(e[2].tx) :
                    /\ frame.out[i].req = e[2].req
                    /\ frame.out[i].rep.version_info = version(frame.snapshot, e[2].req.type_url)
                    /\ frame.out[i].rep.type_url = e[2].req.type_url
                    /\ IsNone(resources(frame.snapshot, e[2].req.type_url))
                          => /\ frame.out[i].rep.version_info = ""
                             /\ frame.out[i].rep.resources = <<>>
        /\ \A tx \in Responders \ {e[2].tx : e \in StaleBefore} :
              sent[tx] = frame.pre_sent[tx]

\* in ADS mode a push met two watches of the node: one it contradicts, of a
\* type the snapshot does not know, and one it agrees with
C8_Witness ==
    /\ pc = "ss_return"
    /\ ads
    /\ \E e \in StaleBefore : IsNone(resources(frame.snapshot, e[2].req.type_url))
    /\ Entries(frame.pre_status, frame.node) \ StaleBefore # {}

\* C9: every response the running operation has sent carries the version, for
\* the request's type, of the snapshot installed for the request's node.
C9_ResponseCarriesInstalledVersion ==
    pc # "idle" =>
        \A i \in DOMAIN frame.out :
            LET m == frame.out[i]
                node_id == hash_id(m.req.node)
            IN /\ node_id \in DOMAIN snapshots
               /\ m.rep.version_info = version(snapshots[node_id], m.req.type_url)

\* a push that replaced a snapshot of another version has dispatched a watch
C9_Witness ==
    /\ pc = "ss_return"
    /\ frame.out # <<>>
    /\ frame.node \in DOMAIN frame.pre_snapshots
    /\ \E i \in DOMAIN frame.out :
          version(frame.pre_snapshots[frame.node], frame.out[i].req.type_url)
              # frame.out[i].rep.version_info

\* C10 as claimed: once create_watch has returned Some(id), eventually exactly
\* one of these holds: cancel_watch(id) was called, one response was sent.
C10_AsClaimed ==
    \A c \in Responders :
        (c \in Installed) ~> ((c \in cancelCalled) # (sent[c] = 1))

\* C10 amended: once create_watch has returned Some(id), at every moment
\* exactly one of these holds: the watch is in the table under id and nothing
\* was sent; a cancel_watch with that id took it out and nothing was sent; it
\* is out of the table and one response was sent.
C10_OneFatePerWatch ==
    \A c \in Installed :
        LET waiting == Pending(c) /\ sent[c] = 0 /\ c \notin cancelRemoved
            cancelled == ~Pending(c) /\ sent[c] = 0 /\ c \in cancelRemoved
            answered == ~Pending(c) /\ sent[c] = 1 /\ c \notin cancelRemoved
        IN /\ waiting \/ cancelled \/ answered
           /\ ~(waiting /\ cancelled) /\ ~(waiting /\ answered) /\ ~(cancelled /\ answered)

\* a watch was answered and cancel_watch was called with its id afterwards
C10_Witness ==
    \E c \in Installed : c \in cancelCalled /\ sent[c] = 1 /\ c \notin cancelRemoved

----------------------------------------------------------------------------
\* the names of a request that a bundle has, in request order
Picked(names, items) == SelectSeq(names, LAMBDA n : n \in DOMAIN items)

\* out is the name filter of a request applied to a bundle: nothing of an
\* absent bundle, every resource of the bundle for an empty filter, else the
\* entry of each requested name the bundle has, in request order
IsFiltered(out, names, res) ==
    IF IsNone(res) THEN out = <<>>
    ELSE LET items == Unwrap(res).items IN
         IF names = <<>>
         THEN /\ Len(out) = Cardinality(DOMAIN items)
              /\ Range(out) = {into_any(items[n]) : n \in DOMAIN items}
         ELSE out = [i \in 1..Len(Picked(names, items)) |->
                        into_any(items[Picked(names, items)[i]])]

\* C11: fetch returns Err(NotFound) iff the node of the request has no
\* snapshot; otherwise Err(VersionUpToDate) iff req.version_info equals
\* snapshot.version(req.type_url); otherwise Ok with a response of that
\* version, of type req.type_url, whose resources are the name filter applied
\* to snapshot.resources(type_url) of the type_url argument.
C11_FetchResult ==
    pc = "fetch_return" =>
        LET req == frame.req
            ret == frame.ret
            has == NodeOf(req) \in DOMAIN snapshots
            snapshot == snapshots[NodeOf(req)]
        IN /\ ret = Err("NotFound") <=> ~has
           /\ has => (ret = Err("VersionUpToDate")
                         <=> req.version_info = version(snapshot, req.type_url))
           /\ (has /\ req.version_info # version(snapshot, req.type_url)) =>
                 /\ ret.ok
                 /\ Unwrap(ret.rep).version_info = version(snapshot, req.type_url)
                 /\ Unwrap(ret.rep).type_url = req.type_url
                 /\ IsFiltered(Unwrap(ret.rep).resources, req.resource_names,
                               resources(snapshot, frame.type_url))

\* a fetch for clusters answered Ok from the endpoint bundle
C11_Witness ==
    /\ pc = "fetch_return"
    /\ frame.ret.ok
    /\ frame.type_url # frame.req.type_url
    /\ Unwrap(frame.ret.rep).resources # <<>>

----------------------------------------------------------------------------
\* the running create_watch asks for a name that the stream does not know
\* yet and that the bundle of the snapshot has
Expands ==
    /\ frame.node_id \in DOMAIN snapshots
    /\ frame.req.type_url \in DOMAIN snapshots[frame.node_id].resources
    /\ frame.req.type_url \in DOMAIN frame.known
    /\ \E n \in Range(frame.req.resource_names) :
          /\ n \notin frame.known[frame.req.type_url]
          /\ n \in DOMAIN snapshots[frame.node_id].resources[frame.req.type_url].items

\* C12: in non-ADS mode a create_watch that asks for a name absent from the
\* known names of its type and present in the bundle returns None and has
\* sent one response, whether or not req.version_info is the current version;
\* the response carries the current version and exactly the requested names
\* that the bundle has.
C12_ExpansionIsAnsweredAtOnce ==
    (pc = "cw_return" /\ ~ads /\ Expands) =>
        LET bundle == snapshots[frame.node_id].resources[frame.req.type_url] IN
        /\ IsNone(frame.ret)
        /\ Len(frame.out) = 1
        /\ frame.out[1].tx = frame.tx
        /\ frame.out[1].rep.version_info = bundle.version
        /\ frame.out[1].rep.resources =
              [i \in 1..Len(Picked(frame.req.resource_names, bundle.items)) |->
                  into_any(bundle.items[Picked(frame.req.resource_names, bundle.items)[i]])]

\* scenario S3: bundle {c1, c2} at "v1", the stream knows c1 and asks for c2
\* at "v1"
C12_Witness ==
    /\ pc = "cw_return"
    /\ ~ads
    /\ Expands
    /\ frame.req.version_info = "v1"
    /\ frame.seen = Some("v1")
    /\ frame.req.resource_names = <<"c2">>
    /\ DOMAIN snapshots[frame.node_id].resources[CLUSTER].items = {"c1", "c2"}
    /\ frame.out[1].rep.resources = <<into_any(Resource(CLUSTER, "c2"))>>

----------------------------------------------------------------------------
\* the last_request_time of every node that has a status entry
Times(st) == [n \in DOMAIN st |-> st[n].last_request_time]

\* C13: no step removes a status entry or lowers a last_request_time; only
\* the first step of a create_watch changes them, and it sets the entry of
\* the node of its request to the current time, creating it if the node had
\* none; node_status reports the last_request_time of exactly the nodes that
\* create_watch has been called for.
C13_LastRequestTime ==
    [][ /\ DOMAIN status \subseteq DOMAIN status'
        /\ \A n \in DOMAIN status :
              status'[n].last_request_time >= status[n].last_request_time
        /\ Times(status') # Times(status) =>
              /\ pc = "idle" /\ pc' \in {"cw_return", "cw_respond"}
              /\ clock' > clock
        /\ (pc = "idle" /\ pc' \in {"cw_return", "cw_respond"}) =>
              Times(status') =
                  [n \in DOMAIN status \cup {NodeOf(frame'.req)} |->
                      IF n = NodeOf(frame'.req) THEN clock' ELSE Times(status)[n]]
        /\ pc' = "ns_return" =>
              /\ DOMAIN frame'.ret = asked'
              /\ \A n \in asked' : frame'.ret[n] = status'[n].last_request_time
      ]_vars

\* node_status reports both nodes after a second create_watch for node "N"
\* and a set_snapshot
C13_Witness ==
    /\ pc = "ns_return"
    /\ DOMAIN frame.ret = {"", "N"}
    /\ frame.ret["N"] > frame.ret[""]
    /\ snapshots # <<>>

----------------------------------------------------------------------------
\* C14: build_response(req, resources, v) has version_info v, the type_url of
\* the request and an empty nonce; its resources are none when the bundle is
\* absent, every resource of the bundle when req.resource_names is empty,
\* and otherwise, name by name in request order, the entry of each name the
\* bundle has: a missing name adds nothing, a repeated name adds its entry at
\* each occurrence.
C14_BuildResponse ==
    pc = "build_out" =>
        LET rep == Unwrap(frame.ret)
            names == frame.req.resource_names
        IN /\ rep.version_info = frame.ver
           /\ rep.type_url = frame.req.type_url
           /\ rep.nonce = ""
           /\ IsNone(frame.res) => rep.resources = <<>>
           /\ (IsSome(frame.res) /\ names = <<>>) =>
                 /\ Len(rep.resources) = Cardinality(DOMAIN Unwrap(frame.res).items)
                 /\ \A n \in DOMAIN Unwrap(frame.res).items :
                       \E i \in DOMAIN rep.resources :
                          rep.resources[i] = into_any(Unwrap(frame.res).items[n])
           /\ (IsSome(frame.res) /\ names # <<>>) =>
                 LET items == Unwrap(frame.res).items
                     at == SelectSeq([i \in DOMAIN names |-> i],
                                   LAMBDA i : names[i] \in DOMAIN items)
                 IN /\ Len(rep.resources) = Len(at)
                    /\ \A i \in DOMAIN at :
                          rep.resources[i] = into_any(items[names[at[i]]])

\* a request that repeats a name the bundle has and asks for one it lacks
C14_Witness ==
    /\ pc = "build_out"
    /\ frame.req.resource_names = <<"c2", "c3", "c2">>
    /\ IsSome(frame.res)
    /\ Len(Unwrap(frame.ret).resources) = 2

----------------------------------------------------------------------------
\* C15: a failed send during set_snapshot leaves no stale watch behind: when
\* the operation ends on the failure, the snapshot is installed and every
\* watch still in the table of the node has the version of the snapshot for
\* its type (the other stale watches were removed and answered).
C15_AsClaimed ==
    pc = "ss_panicked" =>
        /\ snapshots[frame.node] = frame.snapshot
        /\ frame.to_delete = <<>>
        /\ \A e \in Entries(status, frame.node) :
              version(frame.snapshot, e[2].req.type_url) = e[2].req.version_info

----------------------------------------------------------------------------
\* C16 as stated: whatever operation holds the lock has sent at most one tuple
\* since it acquired it.
C16_AsClaimed ==
    pc # "idle" => Len(frame.out) <= 1

\* C16: between the acquisition of the lock and its release create_watch sends
\* at most one tuple, cancel_watch, fetch and node_status send none, and
\* set_snapshot sends one tuple per watch it dispatches, on as many responders
\* as the node had watches that the snapshot contradicts; the channels hold
\* what the operation has sent and nothing else.
C16_SendsPerLockHold ==
    pc # "idle" =>
        /\ \A tx \in Responders :
              /\ Cardinality(OutOn(tx)) <= 1
              /\ sent[tx] = frame.pre_sent[tx] + Cardinality(OutOn(tx))
        /\ pc \in {"cw_respond", "cw_return"} =>
              /\ Len(frame.out) <= 1
              /\ pc = "cw_respond" => frame.out = <<>>
        /\ pc \in {"cancel_return", "fetch_return", "ns_return"} => frame.out = <<>>
        /\ pc \in {"ss_dispatch", "ss_return"} =>
              /\ Len(frame.out) + Len(frame.to_delete) = Cardinality(StaleBefore)
              /\ pc = "ss_return" => frame.to_delete = <<>>
              /\ pc = "ss_dispatch" => frame.to_delete # <<>>

\* a set_snapshot returns after two sends under one hold of the lock
C16_Witness ==
    /\ pc = "ss_return"
    /\ Len(frame.out) = 2
    /\ frame.out[1].tx # frame.out[2].tx

----------------------------------------------------------------------------
\* C17: in non-ADS mode a create_watch that does not expand the resource set
\* installs a watch and returns Some(id) when the node has no snapshot,
\* whatever the request and the known names are; installs a watch and sends
\* nothing when req.version_info is the version of the snapshot for
\* req.type_url; sends one response with that version and returns None when
\* it is not.
C17_NonAdsDecision ==
    (pc = "cw_return" /\ ~ads /\ ~Expands) =>
        LET installed == /\ IsSome(frame.ret)
                         /\ <<Unwrap(frame.ret).index, [req |-> frame.req, tx |-> frame.tx]>>
                               \in Entries(status, NodeOf(frame.req))
                         /\ frame.out = <<>>
                         /\ sent = frame.pre_sent
        IN IF NodeOf(frame.req) \notin DOMAIN snapshots
           THEN installed
           ELSE LET ver == version(snapshots[NodeOf(frame.req)], frame.req.type_url) IN
                IF frame.req.version_info = ver
                THEN installed
                ELSE /\ IsNone(frame.ret)
                     /\ Len(frame.out) = 1
                     /\ frame.out[1].tx = frame.tx
                     /\ frame.out[1].rep.version_info = ver
                     /\ Entries(status, NodeOf(frame.req))
                           = Entries(frame.pre_status, NodeOf(frame.req))

\* a request with names and known names at the version of the snapshot is
\* parked
C17_Witness ==
    /\ pc = "cw_return"
    /\ ~ads
    /\ ~Expands
    /\ NodeOf(frame.req) \in DOMAIN snapshots
    /\ frame.req.resource_names # <<>>
    /\ frame.known # <<>>
    /\ frame.req.version_info = version(snapshots[NodeOf(frame.req)], frame.req.type_url)
    /\ IsSome(frame.ret)

----------------------------------------------------------------------------
\* C18: no step of fetch, whatever the request and the outcome, changes the
\* snapshots map, the status map (watch tables, last_request_time, the set of
\* nodes that have an entry) or a responder channel, and fetch has sent
\* nothing when it returns.
C18_FetchIsReadOnly ==
    [][ (pc = "fetch_return" \/ pc' = "fetch_return") =>
           /\ snapshots' = snapshots
           /\ status' = status
           /\ sent' = sent
           /\ pc' = "fetch_return" =>
                 /\ frame'.out = <<>>
                 /\ frame'.pre_status = status'
                 /\ frame'.pre_snapshots = snapshots'
      ]_vars

\* a fetch answered Ok for a node that has no status entry while a watch of
\* another node is pending
C18_Witness ==
    /\ pc = "fetch_return"
    /\ frame.ret.ok
    /\ NodeOf(frame.req) \notin DOMAIN status
    /\ LiveTx(status) # {}

----------------------------------------------------------------------------
\* the node that the operation with program counter p and locals f is for
OpNode(p, f) ==
    IF p \in {"cw_respond", "cw_return"} THEN NodeOf(f.req)
    ELSE IF p \in {"ss_dispatch", "ss_return"} THEN f.node
    ELSE f.watch_id.node_id

\* map m has the same entry, or the same lack of one, for key k before and after
SameAt(before, after, k) ==
    /\ k \in DOMAIN before <=> k \in DOMAIN after
    /\ k \in DOMAIN before => after[k] = before[k]

\* C19: every step of a set_snapshot, create_watch or cancel_watch for node n
\* leaves the snapshot and the status entry (watches, last_request_time) of
\* every other node as they were; set_snapshot sends only on responders of
\* watches in the table of n, leaves the last_request_time of n and creates
\* no status entry, create_watch sends only on its own responder and
\* cancel_watch on none; a set_snapshot for a node without status entry
\* installs the snapshot and returns without sending.
C19_NodesAreIndependent ==
    [][ LET p == IF pc = "idle" THEN pc' ELSE pc
            f == IF pc = "idle" THEN frame' ELSE frame
        IN p \in {"cw_respond", "cw_return", "ss_dispatch", "ss_return", "cancel_return"} =>
           LET n == OpNode(p, f)
               touched == {tx \in Responders : sent'[tx] # sent[tx]}
           IN /\ \A m \in (DOMAIN status \cup DOMAIN status' \cup
                            DOMAIN snapshots \cup DOMAIN snapshots') \ {n} :
                    /\ SameAt(status, status', m)
                    /\ SameAt(snapshots, snapshots', m)
              /\ p \in {"cw_respond", "cw_return"} =>
                    /\ touched \subseteq {f.tx}
                    /\ SameAt(snapshots, snapshots', n)
              /\ p = "cancel_return" =>
                    /\ touched = {}
                    /\ SameAt(snapshots, snapshots', n)
                    /\ n \in DOMAIN status <=> n \in DOMAIN status'
                    /\ n \in DOMAIN status =>
                          status'[n].last_request_time = status[n].last_request_time
              /\ p \in {"ss_dispatch", "ss_return"} =>
                    /\ touched \subseteq {e[2].tx : e \in Entries(status, n)}
                    /\ n \in DOMAIN status <=> n \in DOMAIN status'
                    /\ n \in DOMAIN status =>
                          status'[n].last_request_time = status[n].last_request_time
                    /\ (pc = "idle" /\ n \notin DOMAIN status) =>
                          /\ snapshots'[n] = f.snapshot
                          /\ touched = {}
                          /\ pc' = "ss_return"
      ]_vars

\* a set_snapshot for a node without status entry has run to its return
\* while a watch of another node, stale for the snapshot pushed, is pending
C19_Witness ==
    /\ pc = "ss_return"
    /\ frame.node \notin DOMAIN status
    /\ frame.out = <<>>
    /\ \E m \in DOMAIN status :
          \E e \in Entries(status, m) :
             e[2].req.version_info # version(frame.snapshot, e[2].req.type_url)

----------------------------------------------------------------------------
\* C20: in ADS mode, when the node has a snapshot, create_watch returns None
\* (having responded) exactly when the request has names, the bundle of its
\* type is present and has a name the request lacks, and the request is stale
\* or expands the resource set; in every other case it installs the watch
\* with the request as it is and sends nothing.  A watch answered by
\* set_snapshot had a req.version_info other than the version of the pushed
\* snapshot for its type.
C20_AdsAnswersOnlyPartialRequests ==
    /\ (pc = "cw_return" /\ ads /\ NodeOf(frame.req) \in DOMAIN snapshots) =>
          LET snapshot == snapshots[NodeOf(frame.req)]
              req == frame.req
              partial == /\ req.resource_names # <<>>
                         /\ req.type_url \in DOMAIN snapshot.resources
                         /\ DOMAIN snapshot.resources[req.type_url].items
                               \ Range(req.resource_names) # {}
              stale == req.version_info # version(snapshot, req.type_url)
          IN /\ IsNone(frame.ret) <=> (partial /\ (stale \/ Expands))
             /\ IsNone(frame.ret) => Len(frame.out) = 1 /\ frame.out[1].tx = frame.tx
             /\ IsSome(frame.ret) =>
                   /\ frame.out = <<>>
                   /\ <<Unwrap(frame.ret).index, [req |-> req, tx |-> frame.tx]>>
                         \in Entries(status, NodeOf(req))
    /\ (pc \in {"ss_dispatch", "ss_return"} /\ ads) =>
          \A i \in DOMAIN frame.out :
             frame.out[i].req.version_info
                # version(frame.snapshot, frame.out[i].req.type_url)

\* an ADS request for everything at a version other than the snapshot's is
\* parked with its version
C20_Witness ==
    /\ pc = "cw_return"
    /\ ads
    /\ NodeOf(frame.req) \in DOMAIN snapshots
    /\ frame.req.resource_names = <<>>
    /\ frame.req.type_url = CLUSTER
    /\ frame.req.version_info # version(snapshots[NodeOf(frame.req)], CLUSTER)
    /\ IsSome(frame.ret)
====
